---------------------------- MODULE Spec2Model ----------------------------
(***************************************************************************)
(* Model of evolve.py: the hyperparameter-evolution driver.  One behaviour *)
(* follows the files of one tracker type (its configuration file and its   *)
(* study checkpoint) through successive runs of the script.                *)
(*                                                                         *)
(* Parameter values are kept as the text yaml would show ("0.35", "True"); *)
(* a float or int range is represented by its two end points.  Scores are  *)
(* small integers.  A report is a sequence of tokens: the marker           *)
(* 'COMBINED', a number, a piece of text without digits, or a piece of     *)
(* text the regular expression matches but float() rejects ("1..5").       *)
(***************************************************************************)
EXTENDS Integers, Sequences, FiniteSets, TLC

\* ------------------------------------------------------------- bounds
MaxTrials == 2        \* largest --n-trials of a run
MaxTotal == 2         \* trials started over all runs of one behaviour
MaxReportLen == 8     \* tokens of a report when the extractor is taken alone

Seeds == {1, 2}       \* which end of its range each suggestion takes
Scores == {1, 2}      \* the numbers a report may show

Trackers == {"strongsort", "bytetrack", "ocsort"}
Methods == Trackers \cup {"deepsort"}
CliConfThres == "0.45"

\* ------------------------------------------------------------- reports
Marker == [k |-> "marker", v |-> 0]
Text == [k |-> "text", v |-> 0]
Bad == [k |-> "bad", v |-> 0]
Num(x) == [k |-> "num", v |-> x]

RECURSIVE split(_)
\* str.split('COMBINED'): the pieces between the markers, one more than markers
split(r) ==
    IF \A i \in 1..Len(r) : r[i] # Marker THEN <<r>>
    ELSE LET p == CHOOSE i \in 1..Len(r) :
                    r[i] = Marker /\ \A j \in 1..(i - 1) : r[j] # Marker
         IN <<SubSeq(r, 1, p - 1)>> \o split(SubSeq(r, p + 1, Len(r)))

\* pieces[1:-1]: the piece behind the first marker is kept
Slice1m1(pieces) == SubSeq(pieces, 2, Len(pieces) - 1)

\* pieces[2:-1]
Slice2m1(pieces) == SubSeq(pieces, 3, Len(pieces) - 1)

IsMatch(t) == t.k \in {"num", "bad"}
\* re.findall("[-+]?(?:\d*\.*\d+)", f)
findall(f) == SelectSeq(f, IsMatch)

\* float(re.findall(...)[0]) of one piece
FirstFloat(f) ==
    LET m == findall(f)
    IN IF m = <<>> THEN [err |-> "IndexError", v |-> 0]
       ELSE IF m[1].k = "bad" THEN [err |-> "ValueError", v |-> 0]
       ELSE [err |-> "none", v |-> m[1].v]

ScoreNames == <<"HOTA", "MOTA", "IDF1">>

\* {key: value for key, value in zip(['HOTA', 'MOTA', 'IDF1'], values)}
ZipScores(values) ==
    LET n == IF Len(values) < 3 THEN Len(values) ELSE 3
    IN [key \in {ScoreNames[i] : i \in 1..n} |->
           values[CHOOSE i \in 1..n : ScoreNames[i] = key]]

\* the lookups with a default: combined_results.get(key, 0)
ReturnScoresOrZero(d) ==
    [err |-> "none",
     values |-> [i \in 1..3 |-> IF ScoreNames[i] \in DOMAIN d
                                THEN d[ScoreNames[i]] ELSE 0]]

\* return combined_results['HOTA'], combined_results['MOTA'],
\*        combined_results['IDF1']
ReturnScores(d) ==
    IF \E i \in 1..3 : ScoreNames[i] \notin DOMAIN d
    THEN [err |-> "KeyError", values |-> <<>>]
    ELSE [err |-> "none", values |-> <<d["HOTA"], d["MOTA"], d["IDF1"]>>]

\* the body of Objective.__call__ after the report came back
ParseReport(results) ==
    LET pieces == Slice2m1(split(results))
        fl == [i \in 1..Len(pieces) |-> FirstFloat(pieces[i])]
        failed == {i \in 1..Len(pieces) : fl[i].err # "none"}
    IN IF failed # {}
       THEN [err |-> fl[CHOOSE i \in failed : \A j \in failed : i <= j].err,
             values |-> <<>>]
       ELSE ReturnScores(ZipScores([i \in 1..Len(pieces) |-> fl[i].v]))

\* what run(opt) may hand back: the evaluation's report in the layout the
\* extractor is written for (a first occurrence of the marker ahead of the
\* three summary lines and a last summary line behind them), the same
\* without the first occurrence, and reports that lack parts of it
Report5(h, m, i) ==
    <<Marker, Text, Marker, Num(h), Text, Marker, Num(m), Marker, Num(i),
      Text, Marker, Num(1)>>
Report4(h, m, i) ==
    <<Text, Marker, Num(h), Text, Marker, Num(m), Marker, Num(i),
      Text, Marker, Num(1)>>
RunReports ==
    {Report5(h, m, i) : h \in Scores, m \in Scores, i \in Scores}
    \cup {Report4(h, 2, 1) : h \in Scores}
    \cup {<<Text, Num(1), Num(2), Num(1)>>,
          <<Marker, Text, Marker, Num(1), Marker, Text, Marker, Num(2),
            Marker, Num(1)>>,
          <<Marker, Text, Marker, Num(2), Marker, Bad, Marker, Num(2),
            Marker, Num(1)>>,
          <<Marker, Marker, Num(2), Marker, Num(1), Marker, Num(1)>>,
          <<Marker, Num(2), Marker, Num(1), Marker, Num(1)>>,
          <<Text, Marker, Num(2), Num(1), Num(1)>>}

\* ------------------------------------------------------------- sampler
\* trial.suggest_float / suggest_int / suggest_categorical
Suggest(choices, s) == choices[IF s <= Len(choices) THEN s ELSE Len(choices)]

NoDict == [x \in {} |-> ""]

\* Objective.get_new_config up to the dump: the options as it leaves them,
\* what the trial records as its parameters, and the document d
get_new_config(o, s) ==
    IF o.tracking_method = "strongsort" THEN
        LET conf_thres == Suggest(<<"0.35", "0.55">>, s)
            iou_thresh == Suggest(<<"0.1", "0.4">>, s)
            ecc == Suggest(<<"True", "False">>, s)
            ema_alpha == Suggest(<<"0.7", "0.95">>, s)
            max_dist == Suggest(<<"0.1", "0.4">>, s)
            max_iou_dist == Suggest(<<"0.5", "0.9">>, s)
            max_age == Suggest(<<"10", "200">>, s)
            n_init == Suggest(<<"1", "3">>, s)
            mc_lambda == Suggest(<<"0.995">>, s)
            nn_budget == Suggest(<<"100">>, s)
            max_unmatched_preds == Suggest(<<"0">>, s)
        IN [opt |-> [o EXCEPT !.conf_thres = conf_thres],
            params |-> [conf_thres |-> conf_thres, iou_thresh |-> iou_thresh,
                        ecc |-> ecc, ema_alpha |-> ema_alpha,
                        max_dist |-> max_dist, max_iou_dist |-> max_iou_dist,
                        max_age |-> max_age, n_init |-> n_init,
                        mc_lambda |-> mc_lambda, nn_budget |-> nn_budget,
                        max_unmatched_preds |-> max_unmatched_preds],
            d |-> [strongsort |->
                     [ecc |-> ecc, mc_lambda |-> mc_lambda,
                      ema_alpha |-> ema_alpha, max_dist |-> max_dist,
                      max_iou_dist |-> max_iou_dist,
                      max_unmatched_preds |-> max_unmatched_preds,
                      max_age |-> max_age, n_init |-> n_init,
                      nn_budget |-> nn_budget]]]
    ELSE IF o.tracking_method = "bytetrack" THEN
        LET track_thres == Suggest(<<"0.35", "0.55">>, s)
            track_buffer == Suggest(<<"10", "60">>, s)
            match_thresh == Suggest(<<"0.7", "0.9">>, s)
        IN [opt |-> [o EXCEPT !.track_thres = track_thres],
            params |-> [track_thres |-> track_thres,
                        track_buffer |-> track_buffer,
                        match_thresh |-> match_thresh],
            d |-> [bytetrack |->
                     [track_thresh |-> o.conf_thres,
                      match_thresh |-> match_thresh,
                      track_buffer |-> track_buffer,
                      frame_rate |-> "30"]]]
    ELSE IF o.tracking_method = "ocsort" THEN
        LET det_thresh == Suggest(<<"0.35", "0.55">>, s)
            max_age == Suggest(<<"10", "60">>, s)
            min_hits == Suggest(<<"1", "5">>, s)
            iou_thresh == Suggest(<<"0.1", "0.4">>, s)
            delta_t == Suggest(<<"1", "5">>, s)
            asso_func == Suggest(<<"iou", "giou">>, s)
            inertia == Suggest(<<"0.1", "0.4">>, s)
            use_byte == Suggest(<<"True", "False">>, s)
        IN [opt |-> [o EXCEPT !.conf_thres = det_thresh],
            params |-> [det_thresh |-> det_thresh, max_age |-> max_age,
                        min_hits |-> min_hits, iou_thresh |-> iou_thresh,
                        delta_t |-> delta_t, asso_func |-> asso_func,
                        inertia |-> inertia, use_byte |-> use_byte],
            d |-> [ocsort |->
                     [det_thresh |-> det_thresh, max_age |-> max_age,
                      min_hits |-> min_hits, iou_thresh |-> iou_thresh,
                      delta_t |-> delta_t, asso_func |-> asso_func,
                      inertia |-> inertia, use_byte |-> use_byte]]]
    ELSE [opt |-> o, params |-> NoDict, d |-> NoDict]

\* ------------------------------------------------------------- the study
\* a trial as the study keeps it
TrialRec(number, state, params, values) ==
    [number |-> number, state |-> state, params |-> params, values |-> values]

Complete(st) == {st[i] : i \in {j \in 1..Len(st) : st[j].state = "COMPLETE"}}

\* a is at least as good as b in every objective and better in one
Dominates(a, b) ==
    /\ \A i \in 1..3 : a.values[i] >= b.values[i]
    /\ \E i \in 1..3 : a.values[i] > b.values[i]

\* the trials study.best_trials holds
ParetoSet(st) ==
    {t \in Complete(st) : ~ \E u \in Complete(st) : Dominates(u, t)}

\* the orders in which study.best_trials may list them
FrontOrders(st) ==
    LET S == ParetoSet(st)
    IN {f \in [1..Cardinality(S) -> S] :
           \A i, j \in 1..Cardinality(S) : f[i] = f[j] => i = j}

RECURSIVE MaxFromLast(_, _, _, _)
\* a maximum that lets a later equal element replace the earlier one
MaxFromLast(f, k, best, i) ==
    IF i > Len(f) THEN best
    ELSE MaxFromLast(f, k,
                     IF f[i].values[k] >= best.values[k] THEN f[i] ELSE best,
                     i + 1)

RECURSIVE MaxFrom(_, _, _, _)
MaxFrom(f, k, best, i) ==
    IF i > Len(f) THEN best
    ELSE MaxFrom(f, k, IF f[i].values[k] > best.values[k] THEN f[i] ELSE best,
                 i + 1)

\* max(study.best_trials, key=lambda t: t.values[k - 1]) of a front that
\* is not empty
MaxByValue(f, k) == MaxFrom(f, k, f[1], 2)

\* the pick with the key on the second objective
trial_with_highest_MOTA(f) == MaxByValue(f, 2)

\* the trial write_best_HOTA_params_to_config picks
trial_with_highest_HOTA(f) == MaxByValue(f, 1)

\* ------------------------------------------------------------- state
VARIABLES
    opt,              \* the parsed options, as the sampler leaves them
    pc,               \* where the script is
    err,              \* the exception that ended the run, "none" otherwise
    study,            \* study.trials, in memory
    checkpoint,       \* <tracking-method>_study.pkl on disk
    ckptAtStart,      \* that file as the run found it
    tracking_config,  \* the file at opt.tracking_config
    cfgDir,           \* whether the directory of that file exists
    invoked,          \* calls of run(opt) in this run
    trialsRun,        \* trials of this run that completed
    ckptWrites,       \* joblib.dump calls of this run
    plots,            \* the html files save_plots wrote in this run
    front,            \* study.best_trials as the last step listed it
    lastReport,       \* what the last call of run(opt) returned
    scores,           \* what the last Objective.__call__ returned, if it did
    earlier,          \* what the calls of run(opt) before the last returned
    total             \* trials requested over all runs

vars == <<opt, pc, err, study, checkpoint, ckptAtStart, tracking_config,
          cfgDir, invoked, trialsRun, ckptWrites, plots, front, lastReport,
          scores, earlier, total>>

NoFile == [exists |-> FALSE, trials |-> <<>>]
PriorConfig == [kind |-> "prior", number |-> 0, values |-> <<>>, d |-> NoDict]

Running == {"optimize", "saved", "plotted", "printed"}

Init ==
    /\ \E m \in Methods :
          /\ opt = [tracking_method |-> m, n_trials |-> 0, resume |-> FALSE,
                    conf_thres |-> CliConfThres, track_thres |-> "unset"]
          /\ cfgDir \in (IF m \in Trackers THEN {TRUE} ELSE BOOLEAN)
    /\ pc = "idle"
    /\ err = "none"
    /\ study = <<>>
    /\ checkpoint = NoFile
    /\ ckptAtStart = NoFile
    /\ tracking_config = PriorConfig
    /\ invoked = 0
    /\ trialsRun = 0
    /\ ckptWrites = 0
    /\ plots = {}
    /\ front = <<>>
    /\ lastReport = <<>>
    /\ scores = <<>>
    /\ earlier = <<>>
    /\ total = 0

\* an optimize that hands over after its first trial
OptimizeDoneEarly(o, done) == done >= 1

\* study.optimize has run its n_trials
OptimizeDone(o, done) == done = o.n_trials

\* a start that ignores --resume
LoadStudyFresh(resume, file) == <<>>

\* joblib.load of the checkpoint when resuming, optuna.create_study otherwise
LoadStudy(resume, file) == IF resume THEN file.trials ELSE <<>>

\* parse_opt and the choice between joblib.load and optuna.create_study
StartRun(n, resume) ==
    /\ pc \in {"idle", "done", "error"}
    /\ total + n <= MaxTotal
    /\ total' = total + n
    /\ opt' = [tracking_method |-> opt.tracking_method, n_trials |-> n,
               resume |-> resume, conf_thres |-> CliConfThres,
               track_thres |-> "unset"]
    /\ ckptAtStart' = checkpoint
    /\ invoked' = 0
    /\ trialsRun' = 0
    /\ ckptWrites' = 0
    /\ plots' = {}
    /\ front' = <<>>
    /\ lastReport' = <<>>
    /\ scores' = <<>>
    /\ earlier' = <<>>
    /\ IF resume /\ ~checkpoint.exists
       THEN pc' = "error" /\ err' = "FileNotFoundError" /\ study' = <<>>
       ELSE /\ pc' = "optimize"
            /\ err' = "none"
            /\ study' = LoadStudy(resume, checkpoint)
    /\ UNCHANGED <<checkpoint, tracking_config, cfgDir>>

\* one trial of study.optimize: Objective.__call__ and what the study
\* records of it
Trial(s, report) ==
    /\ pc = "optimize"
    /\ ~OptimizeDone(opt, trialsRun)
    /\ LET g == get_new_config(opt, s)
           r == ParseReport(report)
           number == Len(study)
       IN /\ opt' = g.opt
          /\ IF ~cfgDir
             THEN \* open(self.opt.tracking_config, 'w') fails
                  /\ study' = <<>>
                  /\ pc' = "error"
                  /\ err' = "FileNotFoundError"
                  /\ UNCHANGED <<tracking_config, invoked, lastReport,
                                 scores, earlier, trialsRun>>
             ELSE /\ tracking_config' = [kind |-> "trial", number |-> number,
                                         values |-> <<>>, d |-> g.d]
                  /\ invoked' = invoked + 1
                  /\ lastReport' = report
                  /\ earlier' = IF invoked > 0
                                THEN Append(earlier, lastReport) ELSE earlier
                  /\ scores' = r.values
                  /\ IF r.err # "none"
                     THEN /\ study' = <<>>
                          /\ pc' = "error"
                          /\ err' = r.err
                          /\ UNCHANGED trialsRun
                     ELSE /\ study' = Append(study,
                                  TrialRec(number, "COMPLETE", g.params,
                                           r.values))
                          /\ trialsRun' = trialsRun + 1
                          /\ UNCHANGED <<pc, err>>
    /\ UNCHANGED <<checkpoint, ckptAtStart, cfgDir, ckptWrites, plots, front,
                   total>>

\* joblib.dump(study, opt.tracking_method + "_study.pkl")
Dump ==
    /\ pc = "optimize"
    /\ OptimizeDone(opt, trialsRun)
    /\ checkpoint' = [exists |-> TRUE, trials |-> study]
    /\ ckptWrites' = ckptWrites + 1
    /\ pc' = "saved"
    /\ UNCHANGED <<opt, err, study, ckptAtStart, tracking_config, cfgDir,
                   invoked, trialsRun, plots, front, lastReport, scores,
                   earlier, total>>

\* save_plots
SavePlots ==
    /\ pc = "saved"
    /\ plots' = IF ~(opt.n_trials <= 1)
                THEN {"pareto_front", "HOTA_param_importances",
                      "MOTA_param_importances", "IDF1_param_importances"}
                ELSE {"pareto_front"}
    /\ pc' = "plotted"
    /\ UNCHANGED <<opt, err, study, checkpoint, ckptAtStart, tracking_config,
                   cfgDir, invoked, trialsRun, ckptWrites, front, lastReport,
                   scores, earlier, total>>

\* print_best_trial_metric_results: max() of an empty front raises
PrintBest ==
    /\ pc = "plotted"
    /\ \E f \in FrontOrders(study) :
          /\ front' = f
          /\ IF f = <<>>
             THEN pc' = "error" /\ err' = "ValueError" /\ study' = <<>>
             ELSE pc' = "printed" /\ UNCHANGED <<err, study>>
    /\ UNCHANGED <<opt, checkpoint, ckptAtStart, tracking_config,
                   cfgDir, invoked, trialsRun, ckptWrites, plots, lastReport,
                   scores, earlier, total>>

\* write_best_HOTA_params_to_config
WriteBest ==
    /\ pc = "printed"
    /\ \E f \in FrontOrders(study) :
          /\ front' = f
          /\ IF f = <<>>
             THEN pc' = "error" /\ err' = "ValueError" /\ study' = <<>>
                  /\ UNCHANGED tracking_config
             ELSE IF ~cfgDir
             THEN pc' = "error" /\ err' = "FileNotFoundError"
                  /\ study' = <<>> /\ UNCHANGED tracking_config
             ELSE LET t == trial_with_highest_HOTA(f)
                  IN /\ tracking_config' =
                           [kind |-> "final", number |-> t.number,
                            values |-> t.values,
                            d |-> (opt.tracking_method :> t.params)]
                     /\ pc' = "done"
                     /\ UNCHANGED <<err, study>>
    /\ UNCHANGED <<opt, checkpoint, ckptAtStart, cfgDir, invoked,
                   trialsRun, ckptWrites, plots, lastReport, scores,
                   earlier, total>>

\* the process dies (killed, out of memory, power) where it stands; as with
\* every exception that ends the script, the study in memory is gone
Crash ==
    /\ pc \in Running
    /\ pc' = "error"
    /\ err' = "crash"
    /\ study' = <<>>
    /\ UNCHANGED <<opt, checkpoint, ckptAtStart, tracking_config,
                   cfgDir, invoked, trialsRun, ckptWrites, plots, front,
                   lastReport, scores, earlier, total>>

Next ==
    \/ \E n \in 0..MaxTrials, resume \in BOOLEAN : StartRun(n, resume)
    \/ \E s \in Seeds, report \in RunReports : Trial(s, report)
    \/ Dump
    \/ SavePlots
    \/ PrintBest
    \/ WriteBest
    \/ Crash

Spec == Init /\ [][Next]_vars

\* ------------------------------------------------------------- extractor
\* The extractor on its own: a report is put together token by token and
\* handed to the body of Objective.__call__.
ParseTokens == {Marker, Text, Bad, Num(1), Num(2)}

InitParse ==
    /\ opt = [tracking_method |-> "strongsort", n_trials |-> 1,
              resume |-> FALSE, conf_thres |-> CliConfThres,
              track_thres |-> "unset"]
    /\ cfgDir = TRUE
    /\ pc = "report"
    /\ err = "none"
    /\ study = <<>>
    /\ checkpoint = NoFile
    /\ ckptAtStart = NoFile
    /\ tracking_config = PriorConfig
    /\ invoked = 0
    /\ trialsRun = 0
    /\ ckptWrites = 0
    /\ plots = {}
    /\ front = <<>>
    /\ lastReport = <<>>
    /\ scores = <<>>
    /\ earlier = <<>>
    /\ total = 0

\* run(opt) puts out one more token of its report
Emit(tok) ==
    /\ pc = "report"
    /\ Len(lastReport) < MaxReportLen
    /\ lastReport' = Append(lastReport, tok)
    /\ UNCHANGED <<opt, pc, err, study, checkpoint, ckptAtStart,
                   tracking_config, cfgDir, invoked, trialsRun, ckptWrites,
                   plots, front, scores, earlier, total>>

\* run(opt) returns and Objective.__call__ extracts the scores
Extract ==
    /\ pc = "report"
    /\ LET r == ParseReport(lastReport)
       IN /\ pc' = "parsed"
          /\ err' = r.err
          /\ scores' = r.values
    /\ invoked' = 1
    /\ UNCHANGED <<opt, study, checkpoint, ckptAtStart, tracking_config,
                   cfgDir, trialsRun, ckptWrites, plots, front, lastReport,
                   earlier, total>>

NextParse == (\E tok \in ParseTokens : Emit(tok)) \/ Extract

SpecParse == InitParse /\ [][NextParse]_vars

\* ------------------------------------------------------------- properties
Method == opt.tracking_method

\* where the markers of a report stand, in order
IsMarkerAt(r, i) == r[i] = Marker
MarkerSeq(r) ==
    SelectSeq([i \in 1..Len(r) |-> i], LAMBDA i : IsMarkerAt(r, i))

\* between the marker at a and position b the first numeric token is x
Shows(r, a, b, x) ==
    \E j \in (a + 1)..(b - 1) :
        /\ r[j] = Num(x)
        /\ \A l \in (a + 1)..(j - 1) : r[l] = Text

\* lead occurrences of the marker, then three marker lines showing h, m
\* and i, then one last marker line
ReportShape(r, lead, h, m, i) ==
    LET M == MarkerSeq(r)
    IN /\ Len(M) = lead + 4
       /\ Shows(r, M[lead + 1], M[lead + 2], h)
       /\ Shows(r, M[lead + 2], M[lead + 3], m)
       /\ Shows(r, M[lead + 3], M[lead + 4], i)

WellFormed(r) ==
    \E h \in Scores, m \in Scores, i \in Scores : ReportShape(r, 1, h, m, i)

\* no marker at all, or fewer than three of the lines the extractor reads
\* (from the second marker up to the last) show a number
Deficient(r) ==
    LET M == MarkerSeq(r)
    IN \/ Len(M) = 0
       \/ Cardinality({n \in 2..(Len(M) - 1) :
                          \E x \in Scores : Shows(r, M[n], M[n + 1], x)}) < 3

ParseErrors == {"KeyError", "IndexError", "ValueError"}

\* C1: with a tracker type that has no parameter space the run fails before
\* any trial: the configuration file is not written and run(opt) is never
\* called.
UnknownTrackerFailsFirst ==
    Method \notin Trackers => (invoked = 0 /\ tracking_config.kind = "prior")

\* C2 as stated: a report of three marker lines showing h, m and i and one
\* last marker line makes Objective.__call__ return (h, m, i).
ThreeLinesAndLastExtracted ==
    pc = "parsed" =>
        \A h \in Scores, m \in Scores, i \in Scores :
            ReportShape(lastReport, 0, h, m, i) =>
                (err = "none" /\ scores = <<h, m, i>>)

\* C2 amended: a report with one occurrence of the marker ahead of the three
\* marker lines showing h, m and i, and one last marker line behind them,
\* makes Objective.__call__ return (h, m, i), in the order HOTA, MOTA, IDF1.
LeadThreeLinesAndLastExtracted ==
    pc = "parsed" =>
        \A h \in Scores, m \in Scores, i \in Scores :
            ReportShape(lastReport, 1, h, m, i) =>
                (err = "none" /\ scores = <<h, m, i>>)

LeadThreeLinesParsed ==
    /\ pc = "parsed"
    /\ \E h \in Scores, m \in Scores, i \in Scores :
          h # m /\ m # i /\ ReportShape(lastReport, 1, h, m, i)

\* C3: a report without the marker, or one from which fewer than three
\* numbers are extracted, ends Objective.__call__ in an error with no score
\* triple; the batch stops there: it is the last report of the run, and the
\* checkpoint stays as the run found it.
BadReportAbortsBatch ==
    /\ (invoked > 0 /\ Deficient(lastReport)) =>
           /\ pc = "error"
           /\ err \in ParseErrors
           /\ scores = <<>>
           /\ ckptWrites = 0
           /\ checkpoint = ckptAtStart
    /\ \A n \in 1..Len(earlier) : ~Deficient(earlier[n])

BadReportAfterGoodTrial ==
    pc = "error" /\ invoked >= 2 /\ Deficient(lastReport)

\* C4: the document get_new_config writes has the tracker type as its only
\* key, and every entry under it holds the value sampled for the parameter
\* of that name in the same trial.
TrialConfigHoldsSampledValues ==
    (pc = "optimize" /\ trialsRun > 0 /\ Method \in Trackers) =>
        LET params == study[Len(study)].params
            d == tracking_config.d
        IN /\ tracking_config.kind = "trial"
           /\ DOMAIN d = {Method}
           /\ \A name \in DOMAIN d[Method] :
                 name \in DOMAIN params /\ d[Method][name] = params[name]

\* C5: the final configuration holds the parameters, number and scores of a
\* non-dominated trial whose HOTA is the largest of the front, the first
\* such trial in the front's order.
BestHOTAWritten ==
    pc = "done" =>
        LET nd == {t \in Complete(study) :
                      \A u \in Complete(study) : ~Dominates(u, t)}
            top == {i \in 1..Len(front) :
                       \A j \in 1..Len(front) :
                           front[j].values[1] <= front[i].values[1]}
        IN /\ {front[i] : i \in 1..Len(front)} = nd
           /\ \E i \in top :
                 /\ \A j \in top : i <= j
                 /\ tracking_config =
                        [kind |-> "final", number |-> front[i].number,
                         values |-> front[i].values,
                         d |-> (Method :> front[i].params)]

TieOnTheFrontWritten ==
    /\ pc = "done"
    /\ Len(front) >= 2
    /\ front[1].values[1] = front[2].values[1]
    /\ front[1].number > front[2].number

\* C6: a resumed run whose batch of N trials succeeds leaves a checkpoint of
\* k + N trials whose first k are the k trials of the checkpoint it loaded.
ResumeIsAdditive ==
    (opt.resume /\ ckptWrites = 1) =>
        /\ Len(checkpoint.trials) = Len(ckptAtStart.trials) + opt.n_trials
        /\ SubSeq(checkpoint.trials, 1, Len(ckptAtStart.trials))
               = ckptAtStart.trials

ResumedBatchSaved ==
    /\ opt.resume
    /\ ckptWrites = 1
    /\ Len(ckptAtStart.trials) >= 1
    /\ opt.n_trials >= 1

\* C7: a run writes the checkpoint at most once, after all its requested
\* trials and before the plots, the report and the final configuration;
\* until then, also when the run has ended in an error, the checkpoint is
\* the one the run found.
CheckpointOnlyAtBatchEnd ==
    /\ ckptWrites <= 1
    /\ ckptWrites = 0 =>
           /\ checkpoint = ckptAtStart
           /\ plots = {}
           /\ pc \notin {"saved", "plotted", "printed", "done"}
    /\ ckptWrites = 1 =>
           /\ trialsRun = opt.n_trials
           /\ pc \in {"saved", "plotted", "printed", "done"} =>
                  checkpoint = [exists |-> TRUE, trials |-> study]

CrashedMidBatch ==
    /\ pc = "error"
    /\ err = "crash"
    /\ trialsRun >= 1
    /\ ckptWrites = 0
    /\ ckptAtStart.exists

\* C8: a fresh run with a recognized tracker type and well-formed reports
\* does not end in an error, whatever trial count was requested.
FreshRunCompletes ==
    (pc = "error" /\ Method \in Trackers /\ ~opt.resume /\ err # "crash") =>
        (invoked > 0 /\ ~WellFormed(lastReport))

\* C9: the HOTA of the trial in the final configuration is at least the HOTA
\* of every completed trial of the study, dominated or not.
FinalHOTAIsStudyMaximum ==
    pc = "done" =>
        \A u \in Complete(study) : tracking_config.values[1] >= u.values[1]

DominatedTrialInStudy ==
    /\ pc = "done"
    /\ \E u \in Complete(study), t \in Complete(study) : Dominates(u, t)

\* C10: the final configuration has, under the tracker type, the same
\* parameter names as the configuration get_new_config writes for a trial.
FinalConfigHasTrialSchema ==
    (pc = "done" /\ Method \in Trackers) =>
        DOMAIN tracking_config.d[Method]
            = DOMAIN get_new_config(opt, 1).d[Method]

=============================================================================
